---- MODULE Spec2Model ----
(***************************************************************************)
(* k-space trajectory generators of Retrospective v10.2                    *)
(*   functions/trajectories/cartesian1Dtrajectory.py  (function version)   *)
(*   functions/trajectories/LUT_1D_Cartesian.py       (script version)     *)
(*   functions/trajectories/exLUT_3D_radialTrajectory.py                   *)
(*   functions/trajectories/exLUT_3D_spiralTrajectory.py                   *)
(*                                                                         *)
(* Each generator is a straight-line program with loops; one action is one *)
(* loop iteration or one block of the script, and pc is the position in    *)
(* the program.  Floating-point quantities are carried as fixed-point      *)
(* integers whose unit is stated at each definition.                       *)
(***************************************************************************)
EXTENDS Integers, Sequences, FiniteSets

VARIABLES
    family,             \* which program runs: "cartesian", "radial", "spiral"
    pc,                 \* position in the program
    targetKspaceSize,   \* Cartesian: size of the resulting k-space
    trajectoryLength,   \* Cartesian: number of views
    sigma,              \* Cartesian: width of the Gaussian
    d,                  \* Cartesian: density weights, unit 1e-8
    incr,               \* Cartesian: scale factor, unit 1e-3
    df,                 \* Cartesian: discretised density (repeat counts)
    pm,                 \* Cartesian: plus/minus toggle of the trim loop
    trajScript,         \* Cartesian: traj of LUT_1D_Cartesian.py
    trajFunc,           \* Cartesian: traj of generate_cartesian_1d_trajectory
    exported,           \* Cartesian: TRUE once the trajectory file is written
    dimy,               \* radial, spiral: grid dimension ky
    dimz,               \* radial, spiral: grid dimension kz
    order,              \* radial, spiral: 1 = alternating traversal
    angleNr,            \* radial, spiral: index into tinyGoldenAngles
    angle,              \* radial, spiral: accumulated angle, unit 1e-5 degree
    spokeNr,            \* radial: spoke counter
    kSpaceList,         \* radial, spiral: the coordinate list, <<y, z>> pairs
    numUnique,          \* radial, spiral: number of distinct coordinates
    numEllipticalPoints, \* radial, spiral: cells of the elliptical mask
    reps,               \* spiral: repetition count
    ns,                 \* spiral: number of arms accumulated
    y0,                 \* spiral: base arm, y0 - center[0], unit 1e-6
    z0,                 \* spiral: base arm, z0 - center[1], unit 1e-6
    ky,                 \* spiral: accumulated ky, later the floored ky
    kz                  \* spiral: accumulated kz, later the floored kz

cartVars == <<targetKspaceSize, trajectoryLength, sigma, d, incr, df, pm,
              trajScript, trajFunc, exported>>

spirVars == <<reps, ns, y0, z0, ky, kz>>

planeVars == <<dimy, dimz, order, angleNr, angle, spokeNr, kSpaceList,
               numUnique, numEllipticalPoints, spirVars>>

vars == <<family, pc, cartVars, planeVars>>

----------------------------------------------------------------------------
(* Bounds of the model *)

MaxSize == 8            \* targetKspaceSize is drawn from 1..MaxSize
MaxExtra == 6           \* trajectoryLength is drawn from 1..targetKspaceSize + MaxExtra
MaxSigma == 2           \* sigma is drawn from 1..MaxSigma
MaxHalfDim == 4         \* radial: dimy, dimz are drawn from {2, 4, .., 2 * MaxHalfDim}
MaxHalfDimSpiral == 2   \* spiral: dimy, dimz are drawn from {2, .., 2 * MaxHalfDimSpiral}
MaxAngleNrSpiral == 3   \* spiral: angleNr is drawn from 1..MaxAngleNrSpiral
MaxReps == 2            \* spiral: reps is drawn from 1..MaxReps
PhaseSteps == 4         \* spiral: the random phase is a multiple of 360 / PhaseSteps degrees
numberOfSpirals == 4    \* spiral: arms accumulated (2000 in the script)
numberOfSpiralPoints == 8   \* spiral: points per arm (256 in the script)

\* Program constant: the fixed number of compaction passes
numberOfPasses == 100

----------------------------------------------------------------------------
(* Arithmetic helpers *)

Abs(x) == IF x < 0 THEN 0 - x ELSE x

RECURSIVE SumSeq(_)
SumSeq(s) == IF s = <<>> THEN 0 ELSE Head(s) + SumSeq(Tail(s))

Copies(v, n) == [i \in 1..n |-> v]

----------------------------------------------------------------------------
(* Cartesian pipeline *)

\* _must_be_pos_even_int / mustBePosEvenInt
mustBePosEvenInt(x) == x > 0 /\ x % 2 = 0

\* The Gaussian density of line k, unit 1e-8:
\*   1/(sigma*sqrt(2*pi)) * exp(-(k-c)^2 / (2*sigma^2)),
\* tabulated for sigma = 2 and sigma = 4 by the distance j = |k - c| from
\* the k-space centre (the values of the expression rounded to 1e-8).
GaussE8(s, j) ==
    CASE s = 2 ->
        ( CASE j = 0 -> 19947114
            [] j = 1 -> 17603266
            [] j = 2 -> 12098536
            [] j = 3 -> 6475880
            [] j = 4 -> 2699548
            [] j = 5 -> 876415 )
      [] s = 4 ->
        ( CASE j = 0 -> 9973557
            [] j = 1 -> 9666703
            [] j = 2 -> 8801633
            [] j = 3 -> 7528436
            [] j = 4 -> 6049268
            [] j = 5 -> 4566227 )

\* d over k = 1..targetKspaceSize, centre c = targetKspaceSize // 2 + 1
Density(N, s) == [k \in 1..N |-> GaussE8(s, Abs(k - (N \div 2 + 1)))]

\* np.round(w * incr) for a weight w (unit 1e-8) and a scale s (unit 1e-3)
RoundScaled(w, s) ==
    LET hi == w \div 10000
        lo == w % 10000
        q == hi * s + (lo * s) \div 10000      \* unit 1e-7
        rem == (lo * s) % 10000
        base == q \div 10000000
        r == q % 10000000
    IN  IF r < 5000000 THEN base
        ELSE IF r > 5000000 \/ rem > 0 THEN base + 1
        ELSE IF base % 2 = 0 THEN base ELSE base + 1

\* df = np.round(d * incr).astype(int)
Discretise(w, s) == [k \in 1..Len(w) |-> RoundScaled(w[k], s)]

\* loc = np.where(df == 1)[0]   (as 1-based positions, ascending)
Ones(f) == {k \in 1..Len(f) : f[k] = 1}

Min(S) == CHOOSE x \in S : \A y \in S : x <= y
Max(S) == CHOOSE x \in S : \A y \in S : x >= y

\* A trim that leaves the located entry as it is.
TrimEntryKeepsOne(f, toggle) == f

\* df[loc[0] if pm else loc[-1]] = 0
TrimEntry(f, toggle) ==
    LET k == IF toggle THEN Min(Ones(f)) ELSE Max(Ones(f))
    IN  [f EXCEPT ![k] = 0]

\* d_int = 1 + df
DInt(f) == [k \in 1..Len(f) |-> 1 + f[k]]

\* Script: for i in range(0, N, 2): traj.extend([i + 1] * d[i])
RECURSIVE ScriptOdd(_, _, _)
ScriptOdd(i, N, dint) ==
    IF i >= N THEN <<>>
    ELSE Copies(i + 1, dint[i + 1]) \o ScriptOdd(i + 2, N, dint)

\* Script: for i in range(N - 1, 0, -2): traj.extend([i + 1] * d[i])
RECURSIVE ScriptEven(_, _)
ScriptEven(i, dint) ==
    IF i <= 0 THEN <<>>
    ELSE Copies(i + 1, dint[i + 1]) \o ScriptEven(i - 2, dint)

\* Script: traj = np.array(traj) - targetKspaceSize // 2 - 1
ZigzagScript(dint, N) ==
    LET t == ScriptOdd(0, N, dint) \o ScriptEven(N - 1, dint)
    IN  [p \in 1..Len(t) |-> t[p] - N \div 2 - 1]

\* Content of a cell of np.empty that was never written.
Uninit == 0

\* Function: traj[cnt : cnt + n] = v  (a slice past the end is clipped)
FillSlice(t, cnt, n, v) ==
    [p \in 1..Len(t) |-> IF cnt < p /\ p <= cnt + n THEN v ELSE t[p]]

\* Function: for k_idx in range(1, N + 1, 2): fill, cnt += d_int[k_idx - 1]
\* Returns <<traj, cnt>>.
RECURSIVE FuncOdd(_, _, _, _, _)
FuncOdd(k, N, dint, t, cnt) ==
    IF k >= N + 1 THEN <<t, cnt>>
    ELSE FuncOdd(k + 2, N, dint, FillSlice(t, cnt, dint[k], k), cnt + dint[k])

\* Function: for k_idx in range(N, 1, -2): fill, cnt += d_int[k_idx - 1]
RECURSIVE FuncEven(_, _, _, _)
FuncEven(k, dint, t, cnt) ==
    IF k <= 1 THEN <<t, cnt>>
    ELSE FuncEven(k - 2, dint, FillSlice(t, cnt, dint[k], k), cnt + dint[k])

\* Function: traj = np.empty(L); the two loops; traj - N / 2 - 1
ZigzagFunc(dint, N, L) ==
    LET up == FuncOdd(1, N, dint, Copies(Uninit, L), 0)
        down == FuncEven(N, dint, up[1], up[2])
    IN  [p \in 1..L |-> down[1][p] - N \div 2 - 1]

extraLines == trajectoryLength - targetKspaceSize

\* The variables of the 2-D generators while the Cartesian pipeline runs.
PlaneIdle ==
    /\ dimy = 0 /\ dimz = 0 /\ order = 0 /\ angleNr = 0 /\ angle = 0
    /\ spokeNr = 0 /\ kSpaceList = <<>> /\ numUnique = 0
    /\ numEllipticalPoints = 0
    /\ reps = 0 /\ ns = 0
    /\ y0 = <<>> /\ z0 = <<>> /\ ky = <<>> /\ kz = <<>>

InitCartesian ==
    /\ family = "cartesian"
    /\ pc = "check"
    /\ targetKspaceSize \in 1..MaxSize
    /\ trajectoryLength \in 1..(targetKspaceSize + MaxExtra)
    /\ sigma \in 1..MaxSigma
    /\ d = <<>>
    /\ incr = 0
    /\ df = <<>>
    /\ pm = TRUE
    /\ trajScript = <<>>
    /\ trajFunc = <<>>
    /\ exported = FALSE
    /\ PlaneIdle

\* The three sanity checks pass.
CheckPass ==
    /\ family = "cartesian" /\ pc = "check"
    /\ mustBePosEvenInt(targetKspaceSize)
    /\ mustBePosEvenInt(trajectoryLength)
    /\ mustBePosEvenInt(sigma)
    /\ pc' = "density"
    /\ UNCHANGED <<family, cartVars, planeVars>>

\* A sanity check raises.
CheckFail ==
    /\ family = "cartesian" /\ pc = "check"
    /\ ~ ( /\ mustBePosEvenInt(targetKspaceSize)
           /\ mustBePosEvenInt(trajectoryLength)
           /\ mustBePosEvenInt(sigma) )
    /\ pc' = "error"
    /\ UNCHANGED <<family, cartVars, planeVars>>

\* d = gauss(k); incr = 0.9; df = round(d * incr)
MakeDensity ==
    /\ family = "cartesian" /\ pc = "density"
    /\ d' = Density(targetKspaceSize, sigma)
    /\ incr' = 900
    /\ df' = Discretise(Density(targetKspaceSize, sigma), 900)
    /\ pc' = "scale"
    /\ UNCHANGED planeVars
    /\ UNCHANGED <<family, targetKspaceSize, trajectoryLength, sigma, pm,
                   trajScript, trajFunc, exported>>

\* while df.sum() <= extra_lines: incr += 0.001; df = round(d * incr)
ScaleUp ==
    /\ family = "cartesian" /\ pc = "scale"
    /\ SumSeq(df) <= extraLines
    /\ incr' = incr + 1
    /\ df' = Discretise(d, incr + 1)
    /\ UNCHANGED planeVars
    /\ UNCHANGED <<family, pc, targetKspaceSize, trajectoryLength, sigma, d,
                   pm, trajScript, trajFunc, exported>>

\* the scale-up loop exits; pm = True
ScaleDone ==
    /\ family = "cartesian" /\ pc = "scale"
    /\ SumSeq(df) > extraLines
    /\ pm' = TRUE
    /\ pc' = "trim"
    /\ UNCHANGED planeVars
    /\ UNCHANGED <<family, targetKspaceSize, trajectoryLength, sigma, d,
                   incr, df, trajScript, trajFunc, exported>>

\* one iteration of the trim loop that finds an entry equal to 1
Trim ==
    /\ family = "cartesian" /\ pc = "trim"
    /\ SumSeq(df) > extraLines
    /\ Ones(df) # {}
    /\ df' = TrimEntry(df, pm)
    /\ pm' = ~ pm
    /\ UNCHANGED planeVars
    /\ UNCHANGED <<family, pc, targetKspaceSize, trajectoryLength, sigma, d,
                   incr, trajScript, trajFunc, exported>>

\* the trim loop leaves through "if loc.size == 0: break"
TrimBreak ==
    /\ family = "cartesian" /\ pc = "trim"
    /\ SumSeq(df) > extraLines
    /\ Ones(df) = {}
    /\ pc' = "assemble"
    /\ UNCHANGED <<family, cartVars, planeVars>>

\* the trim loop leaves through its condition
TrimDone ==
    /\ family = "cartesian" /\ pc = "trim"
    /\ SumSeq(df) <= extraLines
    /\ pc' = "assemble"
    /\ UNCHANGED <<family, cartVars, planeVars>>

\* d_int = 1 + df and the zigzag loops of both implementations
Assemble ==
    /\ family = "cartesian" /\ pc = "assemble"
    /\ trajScript' = ZigzagScript(DInt(df), targetKspaceSize)
    /\ trajFunc' = ZigzagFunc(DInt(df), targetKspaceSize, trajectoryLength)
    /\ pc' = "export"
    /\ UNCHANGED planeVars
    /\ UNCHANGED <<family, targetKspaceSize, trajectoryLength, sigma, d,
                   incr, df, pm, exported>>

\* the trajectory is written to the text file
Export ==
    /\ family = "cartesian" /\ pc = "export"
    /\ exported' = TRUE
    /\ pc' = "done"
    /\ UNCHANGED planeVars
    /\ UNCHANGED <<family, targetKspaceSize, trajectoryLength, sigma, d,
                   incr, df, pm, trajScript, trajFunc>>

NextCartesian ==
    \/ CheckPass
    \/ CheckFail
    \/ MakeDensity
    \/ ScaleUp
    \/ ScaleDone
    \/ Trim
    \/ TrimBreak
    \/ TrimDone
    \/ Assemble
    \/ Export

SpecCartesian == InitCartesian /\ [][NextCartesian]_vars

SpecCartesianFair == SpecCartesian /\ WF_vars(NextCartesian)

----------------------------------------------------------------------------
(* Fixed-point trigonometry.  Angles are integers in units of 1e-5 degree, *)
(* the resolution at which tinyGoldenAngles is written; cosines and sines  *)
(* are integers in units of 1e-8.                                          *)

\* a * b / 1e8 for fixed-point operands, staying inside 32-bit integers
MulE8(a, b) ==
    LET ah == a \div 10000
        al == a % 10000
        bh == b \div 10000
        bl == b % 10000
    IN  ah * bh + (ah * bl + al * bh) \div 10000

\* np.deg2rad for 0 <= x <= 45 degrees: radians in units of 1e-8
Deg2RadE8(x) ==
    LET xh == x \div 10000
        xl == x % 10000
    IN  x * 17 + (xh * 4532925) \div 1000 + (xl * 4533) \div 10000

\* cos on [0, 45 degrees]: Taylor polynomial of degree 10 in Horner form
CosSeries(x) ==
    LET r == Deg2RadE8(x)
        x2 == MulE8(r, r)
        c5 == 100000000 - x2 \div 90
        c4 == 100000000 - MulE8(x2, c5) \div 56
        c3 == 100000000 - MulE8(x2, c4) \div 30
        c2 == 100000000 - MulE8(x2, c3) \div 12
    IN  100000000 - MulE8(x2, c2) \div 2

\* sin on [0, 45 degrees]: Taylor polynomial of degree 11 in Horner form
SinSeries(x) ==
    LET r == Deg2RadE8(x)
        x2 == MulE8(r, r)
        c5 == 100000000 - x2 \div 110
        c4 == 100000000 - MulE8(x2, c5) \div 72
        c3 == 100000000 - MulE8(x2, c4) \div 42
        c2 == 100000000 - MulE8(x2, c3) \div 20
        c1 == 100000000 - MulE8(x2, c2) \div 6
    IN  MulE8(r, c1)

\* cos on [0, 90 degrees]
CosQuadrant(x) ==
    IF x <= 4500000 THEN CosSeries(x) ELSE SinSeries(9000000 - x)

\* np.cos(np.deg2rad(a))
CosE8(a) ==
    LET r == a % 36000000
        h == IF r > 18000000 THEN 36000000 - r ELSE r
    IN  IF h > 9000000 THEN 0 - CosQuadrant(18000000 - h) ELSE CosQuadrant(h)

\* np.sin(np.deg2rad(a))
SinE8(a) == CosE8(a + 27000000)

\* np.floor in place of np.round
FloorTrig(K, c, den) ==
    (K * (c \div 10000) + (K * (c % 10000)) \div 10000) \div (den * 10000)

\* np.round(K * c / den) for an integer K, a cosine or sine c (unit 1e-8)
\* and an even integer den > 0
RoundTrig(K, c, den) ==
    LET a == K * (c \div 10000)
        b == K * (c % 10000)
        n == a + b \div 10000
        rem == b % 10000
        D == den * 10000
        q == n \div D
        r == n % D
    IN  IF 2 * r < D THEN q
        ELSE IF 2 * r > D \/ rem > 0 THEN q + 1
        ELSE IF q % 2 = 0 THEN q ELSE q + 1

----------------------------------------------------------------------------
(* Pseudo-radial generator *)

\* tinyGoldenAngles[nr - 1], unit 1e-5 degree
tinyGoldenAngles(nr) ==
    CASE nr = 1 -> 11124611
      [] nr = 2 -> 6875388
      [] nr = 3 -> 4975077
      [] nr = 4 -> 3897762
      [] nr = 5 -> 3203967
      [] nr = 6 -> 2719840
      [] nr = 7 -> 2362814
      [] nr = 8 -> 2088643
      [] nr = 9 -> 1871484
      [] nr = 10 -> 1695229

GridDims == {2 * h : h \in 1..MaxHalfDim}

SpiralDims == {2 * h : h \in 1..MaxHalfDimSpiral}

numPointsTarget == dimy * dimz

\* numSamplesPerSpoke = 2 * max(dimy, dimz)
numSamplesPerSpoke(dy, dz) == 2 * (IF dy >= dz THEN dy ELSE dz)

\* The rasterised spoke at accumulated angle a:
\*   t = linspace(-1, 1, n), so t[i] = (2i - (n-1)) / (n-1) for i = 0..n-1
\*   y = round(t * cos(theta) * ry),  z = round(t * sin(theta) * rz)
SpokePoints(dy, dz, a) ==
    LET n == numSamplesPerSpoke(dy, dz)
        c == CosE8(a)
        s == SinE8(a)
    IN  [i \in 1..n |->
            << RoundTrig((2 * (i - 1) - (n - 1)) * dy, c, 2 * (n - 1)),
               RoundTrig((2 * (i - 1) - (n - 1)) * dz, s, 2 * (n - 1)) >>]

\* np.flip
Flip(s) == [i \in 1..Len(s) |-> s[Len(s) + 1 - i]]

\* spoke_unique: the points of the spoke in order, first occurrences only
RECURSIVE SpokeUnique(_, _)
SpokeUnique(s, seen) ==
    IF s = <<>> THEN <<>>
    ELSE IF Head(s) \in seen THEN SpokeUnique(Tail(s), seen)
    ELSE <<Head(s)>> \o SpokeUnique(Tail(s), seen \cup {Head(s)})

\* pt[0]**2 / ry**2 + pt[1]**2 / rz**2 <= 1  with ry = dy/2, rz = dz/2
InsideEllipse(pt, dy, dz) ==
    4 * pt[1] * pt[1] * dz * dz + 4 * pt[2] * pt[2] * dy * dy
        <= dy * dy * dz * dz

\* spoke_inside
SpokeInside(s, dy, dz) == SelectSeq(s, LAMBDA pt : InsideEllipse(pt, dy, dz))

\* The points one iteration of the spoke loop appends.
SpokeOf(dy, dz, ord, nr, a) ==
    LET raw == SpokePoints(dy, dz, a)
        dir == IF ord = 1 /\ nr % 2 = 0 THEN Flip(raw) ELSE raw
    IN  SpokeInside(SpokeUnique(dir, {}), dy, dz)

\* The spoke of iteration k for every configuration of the model, tabulated
\* once: angle = k * tinyGoldenAngles[angleNr - 1] after k iterations.
SpokeTable ==
    [dy \in GridDims, dz \in GridDims, ord \in {0, 1}, nr \in 1..10,
     k \in 1..(2 * MaxHalfDim + 2) |->
        SpokeOf(dy, dz, ord, k, k * tinyGoldenAngles(nr))]

\* A truncation that keeps the whole list.
TruncateNothing(s, n) == s

\* kSpaceList[:numPointsTarget]
Truncate(s, n) == IF Len(s) > n THEN SubSeq(s, 1, n) ELSE s

\* np.unique(kSpaceArray, axis=0).shape[0]
NumUnique(s) == Cardinality({s[i] : i \in 1..Len(s)})

\* np.count_nonzero(ellipticalMask) over the grid
\*   arange(-dimy//2, dimy//2) x arange(-dimz//2, dimz//2)
NumEllipticalPoints(dy, dz) ==
    Cardinality({pt \in ((0 - dy \div 2)..(dy \div 2 - 1))
                          \X ((0 - dz \div 2)..(dz \div 2 - 1)) :
                    InsideEllipse(pt, dy, dz)})

CartIdle ==
    /\ targetKspaceSize = 0 /\ trajectoryLength = 0 /\ sigma = 0
    /\ d = <<>> /\ incr = 0 /\ df = <<>> /\ pm = TRUE
    /\ trajScript = <<>> /\ trajFunc = <<>> /\ exported = FALSE

InitRadial ==
    /\ family = "radial"
    /\ pc = "spoke"
    /\ dimy \in GridDims
    /\ dimz \in GridDims
    /\ order \in {0, 1}
    /\ angleNr \in 1..10
    /\ angle = 0
    /\ spokeNr = 0
    /\ kSpaceList = <<>>
    /\ numUnique = 0
    /\ numEllipticalPoints = 0
    /\ reps = 1 /\ ns = 0
    /\ y0 = <<>> /\ z0 = <<>> /\ ky = <<>> /\ kz = <<>>
    /\ CartIdle

\* One iteration of the while loop that does not overshoot the target.
Spoke ==
    /\ family = "radial" /\ pc = "spoke"
    /\ Len(kSpaceList) < numPointsTarget
    /\ LET a == angle + tinyGoldenAngles(angleNr)
           new == kSpaceList \o SpokeTable[dimy, dimz, order, angleNr, spokeNr + 1]
       IN  /\ Len(new) <= numPointsTarget
           /\ spokeNr' = spokeNr + 1
           /\ angle' = a
           /\ kSpaceList' = new
    /\ UNCHANGED <<family, pc, dimy, dimz, order, angleNr, numUnique,
                   numEllipticalPoints, spirVars, cartVars>>

\* The iteration that overshoots: the list is truncated and the loop is left
\* through break.
SpokeOvershoot ==
    /\ family = "radial" /\ pc = "spoke"
    /\ Len(kSpaceList) < numPointsTarget
    /\ LET a == angle + tinyGoldenAngles(angleNr)
           new == kSpaceList \o SpokeTable[dimy, dimz, order, angleNr, spokeNr + 1]
       IN  /\ Len(new) > numPointsTarget
           /\ spokeNr' = spokeNr + 1
           /\ angle' = a
           /\ kSpaceList' = Truncate(new, numPointsTarget)
    /\ pc' = "coverage"
    /\ UNCHANGED <<family, dimy, dimz, order, angleNr, numUnique,
                   numEllipticalPoints, spirVars, cartVars>>

\* The while condition fails: the target was met exactly.
SpokeLoopExit ==
    /\ family = "radial" /\ pc = "spoke"
    /\ Len(kSpaceList) >= numPointsTarget
    /\ pc' = "coverage"
    /\ UNCHANGED <<family, cartVars, planeVars>>

\* numUnique, numEllipticalPoints (coveredFraction is their quotient)
RadialCoverage ==
    /\ family = "radial" /\ pc = "coverage"
    /\ numUnique' = NumUnique(kSpaceList)
    /\ numEllipticalPoints' = NumEllipticalPoints(dimy, dimz)
    /\ pc' = "done"
    /\ UNCHANGED <<family, dimy, dimz, order, angleNr, angle, spokeNr,
                   kSpaceList, spirVars, cartVars>>

NextRadial ==
    \/ Spoke
    \/ SpokeOvershoot
    \/ SpokeLoopExit
    \/ RadialCoverage

SpecRadial == InitRadial /\ [][NextRadial]_vars

SpecRadialFair == SpecRadial /\ WF_vars(NextRadial)

----------------------------------------------------------------------------
(* Pseudo-spiral generator *)

dimYZ == 256

\* The fifth root of x (unit 1e-8) by bisection: the largest r in lo..hi-1
\* with r^5 <= x
RECURSIVE Root5(_, _, _)
Root5(x, lo, hi) ==
    IF hi - lo <= 1 THEN lo
    ELSE LET mid == (lo + hi) \div 2
             m2 == MulE8(mid, mid)
             p5 == MulE8(MulE8(m2, m2), mid)
         IN  IF p5 <= x THEN Root5(x, mid, hi) ELSE Root5(x, lo, mid)

\* np.linspace(0, 1, n)[i] ** gamma with gamma = 0.8, unit 1e-8
PowGamma(i, n) ==
    IF i = 0 THEN 0
    ELSE IF i = n - 1 THEN 100000000
    ELSE LET x == (i * 100000000) \div (n - 1)
             x2 == MulE8(x, x)
         IN  Root5(MulE8(x2, x2), 0, 100000000)

\* t[i] = linspace(0, 1, n)[i] ** gamma * (dimYZ / 2 - 1), unit 1e-6
SpiralRadius(i, n) ==
    LET p == PowGamma(i, n)
        r == dimYZ \div 2 - 1
    IN  r * (p \div 100) + (r * (p % 100)) \div 100

\* theta[i] = linspace(0, 2 * pi * rev, n)[i] + phase, unit 1e-5 degree
SpiralTheta(i, n, phase) == (i * 36000000) \div (n - 1) + phase

\* y0 - center[0] = cos(theta) * t and z0 - center[1] = sin(theta) * t,
\* unit 1e-6, as a sequence over the points of the arm
BaseArmY(n, phase) ==
    [i \in 1..n |-> MulE8(SpiralRadius(i - 1, n), CosE8(SpiralTheta(i - 1, n, phase)))]

BaseArmZ(n, phase) ==
    [i \in 1..n |-> MulE8(SpiralRadius(i - 1, n), SinE8(SpiralTheta(i - 1, n, phase)))]

\* y = (y0 - c) cos(rad) + (z0 - c) sin(rad) + c;  y *= dimy / dimYZ.
\* Kept as (y - dimy / 2) in units of 1 / (dimYZ * 1e6): the term
\* c * dimy / dimYZ is the dimy / 2 that the rasterisation subtracts.
RotatedY(by, bz, a, dy) ==
    [i \in 1..Len(by) |-> (MulE8(by[i], CosE8(a)) + MulE8(bz[i], SinE8(a))) * dy]

\* z = -(y0 - c) sin(rad) + (z0 - c) cos(rad) + c;  z *= dimz / dimYZ
RotatedZ(by, bz, a, dz) ==
    [i \in 1..Len(by) |-> (MulE8(bz[i], CosE8(a)) - MulE8(by[i], SinE8(a))) * dz]

\* np.floor(ky - dimy / 2).astype(int)
FloorCells(s) == [i \in 1..Len(s) |-> s[i] \div (dimYZ * 1000000)]

\* np.column_stack((ky, kz))
ColumnStack(a, b) == [i \in 1..Len(a) |-> <<a[i], b[i]>>]

\* One compaction pass: diffs = np.diff(kSpaceList); mask = any(diffs != 0)
\* with True inserted in front; kSpaceList = kSpaceList[mask]
CompactPass(s) ==
    LET masked == [i \in 1..Len(s) |-> <<i = 1 \/ s[i] # s[i - 1], s[i]>>]
        kept == SelectSeq(masked, LAMBDA e : e[1])
    IN  SubSeq([i \in 1..Len(kept) |-> kept[i][2]], 1, Len(kept))

\* the compaction loop: for _ in range(passes)
RECURSIVE RemoveRepeats(_, _)
RemoveRepeats(s, passes) ==
    IF passes = 0 \/ s = <<>> THEN s
    ELSE RemoveRepeats(CompactPass(s), passes - 1)

\* loc = np.where((kSpaceList[:, 0] == 0) & (kSpaceList[:, 1] == 0))[0]
RECURSIVE OriginLoc(_, _)
OriginLoc(s, i) ==
    IF i > Len(s) THEN <<>>
    ELSE (IF s[i] = <<0, 0>> THEN <<i>> ELSE <<>>) \o OriginLoc(s, i + 1)

\* loc[1::2]
EveryOtherFromSecond(loc) == [j \in 1..(Len(loc) \div 2) |-> loc[2 * j]]

\* loc[::2]
EveryOther(loc) == [j \in 1..((Len(loc) + 1) \div 2) |-> loc[2 * j - 1]]

\* np.delete(kSpaceList, idx, axis=0)
RECURSIVE DeleteAt(_, _, _)
DeleteAt(s, idx, i) ==
    IF i > Len(s) THEN <<>>
    ELSE (IF \E j \in 1..Len(idx) : idx[j] = i THEN <<>> ELSE <<s[i]>>)
            \o DeleteAt(s, idx, i + 1)

\* kSpaceList = np.delete(kSpaceList, loc[::2], axis=0)
PruneOrigin(s) == DeleteAt(s, EveryOther(OriginLoc(s, 1)), 1)

Phases == {k * (36000000 \div PhaseSteps) : k \in 0..(PhaseSteps - 1)}

InitSpiral ==
    /\ family = "spiral"
    /\ pc = "base"
    /\ dimy \in SpiralDims
    /\ dimz \in SpiralDims
    /\ order \in {0, 1}
    /\ angleNr \in 1..MaxAngleNrSpiral
    /\ reps \in 1..MaxReps
    /\ angle = 0
    /\ spokeNr = 0
    /\ kSpaceList = <<>>
    /\ numUnique = 0
    /\ numEllipticalPoints = 0
    /\ ns = 0
    /\ y0 = <<>> /\ z0 = <<>> /\ ky = <<>> /\ kz = <<>>
    /\ CartIdle

\* t, theta with the random phase offset, y0, z0
BaseArm ==
    /\ family = "spiral" /\ pc = "base"
    /\ \E phase \in Phases :
          /\ y0' = BaseArmY(numberOfSpiralPoints, phase)
          /\ z0' = BaseArmZ(numberOfSpiralPoints, phase)
    /\ pc' = "arms"
    /\ UNCHANGED <<family, dimy, dimz, order, angleNr, reps, angle, spokeNr,
                   kSpaceList, numUnique, numEllipticalPoints, ns, ky, kz,
                   cartVars>>

\* One iteration of: for ns in range(1, numberOfSpirals + 1)
SpiralArm ==
    /\ family = "spiral" /\ pc = "arms"
    /\ ns < numberOfSpirals
    /\ LET a == angle + tinyGoldenAngles(angleNr)
           y == RotatedY(y0, z0, a, dimy)
           z == RotatedZ(y0, z0, a, dimz)
           rev == order = 1 /\ (ns + 1) % 2 = 0
       IN  /\ angle' = a
           /\ ky' = ky \o (IF rev THEN Flip(y) ELSE y)
           /\ kz' = kz \o (IF rev THEN Flip(z) ELSE z)
    /\ ns' = ns + 1
    /\ UNCHANGED <<family, pc, dimy, dimz, order, angleNr, reps, spokeNr,
                   kSpaceList, numUnique, numEllipticalPoints, y0, z0,
                   cartVars>>

\* The for loop ends; ky, kz are floored and stacked into kSpaceList.
Rasterise ==
    /\ family = "spiral" /\ pc = "arms"
    /\ ns >= numberOfSpirals
    /\ ky' = FloorCells(ky)
    /\ kz' = FloorCells(kz)
    /\ kSpaceList' = ColumnStack(FloorCells(ky), FloorCells(kz))
    /\ pc' = "repeats"
    /\ UNCHANGED <<family, dimy, dimz, order, angleNr, reps, angle, spokeNr,
                   numUnique, numEllipticalPoints, ns, y0, z0, cartVars>>

\* Remove repeats: the fixed number of compaction passes
Compact ==
    /\ family = "spiral" /\ pc = "repeats"
    /\ kSpaceList' = RemoveRepeats(kSpaceList, numberOfPasses)
    /\ pc' = "prune"
    /\ UNCHANGED <<family, dimy, dimz, order, angleNr, reps, angle, spokeNr,
                   numUnique, numEllipticalPoints, ns, y0, z0, ky, kz,
                   cartVars>>

\* loc = where(origin); kSpaceList = delete(kSpaceList, loc[::2])
Prune ==
    /\ family = "spiral" /\ pc = "prune"
    /\ kSpaceList' = PruneOrigin(kSpaceList)
    /\ pc' = "truncate"
    /\ UNCHANGED <<family, dimy, dimz, order, angleNr, reps, angle, spokeNr,
                   numUnique, numEllipticalPoints, ns, y0, z0, ky, kz,
                   cartVars>>

\* kSpaceList = kSpaceList[:dimy * dimz * reps, :]
TruncateSpiral ==
    /\ family = "spiral" /\ pc = "truncate"
    /\ kSpaceList' = Truncate(kSpaceList, dimy * dimz * reps)
    /\ pc' = "coverage"
    /\ UNCHANGED <<family, dimy, dimz, order, angleNr, reps, angle, spokeNr,
                   numUnique, numEllipticalPoints, ns, y0, z0, ky, kz,
                   cartVars>>

\* numUnique, numEllipticalPoints (coveredFraction is their quotient)
SpiralCoverage ==
    /\ family = "spiral" /\ pc = "coverage"
    /\ numUnique' = NumUnique(kSpaceList)
    /\ numEllipticalPoints' = NumEllipticalPoints(dimy, dimz)
    /\ pc' = "done"
    /\ UNCHANGED <<family, dimy, dimz, order, angleNr, reps, angle, spokeNr,
                   kSpaceList, ns, y0, z0, ky, kz, cartVars>>

NextSpiral ==
    \/ BaseArm
    \/ SpiralArm
    \/ Rasterise
    \/ Compact
    \/ Prune
    \/ TruncateSpiral
    \/ SpiralCoverage

SpecSpiral == InitSpiral /\ [][NextSpiral]_vars

----------------------------------------------------------------------------
(* All three programs *)

Init == InitCartesian \/ InitRadial \/ InitSpiral

Next == NextCartesian \/ NextRadial \/ NextSpiral

Spec == Init /\ [][Next]_vars

----------------------------------------------------------------------------
(* Properties of the Cartesian pipeline *)

validConfig ==
    /\ family = "cartesian"
    /\ mustBePosEvenInt(targetKspaceSize)
    /\ mustBePosEvenInt(trajectoryLength)
    /\ mustBePosEvenInt(sigma)

balancerFinished == pc \in {"assemble", "export", "done"}

\* C1: for every valid configuration with trajectoryLength >= targetSize,
\* when the balancer has finished every entry of df is >= 0 and df sums to
\* exactly extraLines, also after the "no entry equal to 1" exit.
BalancerSumsToSurplus ==
    (validConfig /\ extraLines >= 0 /\ balancerFinished)
        => /\ \A k \in 1..Len(df) : df[k] >= 0
           /\ SumSeq(df) = extraLines

\* C2: for every valid configuration the assembled sample sequence has
\* exactly trajectoryLength entries in both implementations.
AssembledLengthIsTrajectoryLength ==
    (validConfig /\ extraLines >= 0 /\ pc \in {"export", "done"})
        => /\ Len(trajScript) = trajectoryLength
           /\ Len(trajFunc) = trajectoryLength

\* Line j is visited before line k in the zigzag order: odd lines ascending,
\* then even lines descending.
VisitedBefore(j, k) ==
    IF j % 2 = 1 THEN (k % 2 = 0) \/ (j < k)
    ELSE (k % 2 = 0) /\ (j > k)

\* Number of samples emitted before the run of line k begins.
RunStart(k, r) ==
    SumSeq([j \in 1..Len(r) |-> IF VisitedBefore(j, k) THEN 1 + r[j] ELSE 0])

\* The reference sequence: line k fills positions RunStart+1 .. RunStart+1+r[k],
\* and N/2 + 1 is subtracted from every entry.
ZigzagReference(r) ==
    LET N == Len(r)
    IN  [p \in 1..(N + SumSeq(r)) |->
            (CHOOSE k \in 1..N :
                RunStart(k, r) < p /\ p <= RunStart(k, r) + 1 + r[k])
            - (N \div 2 + 1)]

\* C3: the output of the zigzag assembler equals the reference sequence for
\* the repeat counts it was given, in both implementations; every entry lies
\* in [-N/2, N/2 - 1] and every line occurs at least once.
ZigzagEqualsReference ==
    (validConfig /\ extraLines >= 0 /\ pc \in {"export", "done"})
        => /\ trajScript = ZigzagReference(df)
           /\ trajFunc = ZigzagReference(df)
           /\ \A p \in 1..Len(trajFunc) :
                 /\ trajFunc[p] >= 0 - targetKspaceSize \div 2
                 /\ trajFunc[p] <= targetKspaceSize \div 2 - 1
           /\ \A k \in 1..targetKspaceSize :
                 \E p \in 1..Len(trajFunc) :
                     trajFunc[p] = k - (targetKspaceSize \div 2 + 1)

\* C7: with trajectoryLength < targetSize (both positive even integers) the
\* pipeline stops before assembling anything: no sample sequence is
\* produced by either implementation and nothing is exported.
NegativeSurplusRejected ==
    (validConfig /\ extraLines < 0)
        => /\ trajScript = <<>>
           /\ trajFunc = <<>>
           /\ ~ exported

\* Every iteration of the trim loop zeroes exactly one entry equal to 1 and
\* lowers the sum by exactly 1.
TrimStepZeroesOneEntry ==
    (family = "cartesian" /\ pc = "trim" /\ pc' = "trim")
        => /\ SumSeq(df') = SumSeq(df) - 1
           /\ \E k \in 1..Len(df) :
                 /\ df[k] = 1 /\ df'[k] = 0
                 /\ \A j \in 1..Len(df) : j # k => df'[j] = df[j]

\* C8: the balancer terminates for every surplus >= 0: the scale-up loop
\* reaches a scale at which the rounded sum exceeds extraLines, every trim
\* iteration zeroes exactly one entry equal to 1 (sum lowered by 1), and the
\* trim loop then ends.
BalancerTerminates ==
    /\ [][TrimStepZeroesOneEntry]_vars
    /\ (family = "cartesian" /\ pc = "scale" /\ extraLines >= 0)
          ~> (pc = "trim" /\ SumSeq(df) > extraLines)
    /\ (family = "cartesian" /\ pc = "trim" /\ extraLines >= 0)
          ~> (pc = "assemble")

\* A valid configuration whose trim loop ran twice (first entry, then last
\* entry) and then ended through its condition.
BalancerTrimmedTwice ==
    /\ validConfig /\ extraLines >= 0
    /\ pc = "assemble"
    /\ pm = TRUE
    /\ SumSeq(df) = extraLines
    /\ SumSeq(Discretise(d, incr)) = extraLines + 2

----------------------------------------------------------------------------
(* Properties of the pseudo-radial generator *)

\* C4: when the spoke loop has exited, the coordinate list has exactly
\* dimy * dimz entries and every entry (y, z) satisfies
\* y^2 / ry^2 + z^2 / rz^2 <= 1 with ry = dimy / 2, rz = dimz / 2.
SpokeLoopExactTargetInsideEllipse ==
    (family = "radial" /\ pc \in {"coverage", "done"})
        => /\ Len(kSpaceList) = dimy * dimz
           /\ \A i \in 1..Len(kSpaceList) :
                 4 * kSpaceList[i][1] * kSpaceList[i][1] * dimz * dimz
                   + 4 * kSpaceList[i][2] * kSpaceList[i][2] * dimy * dimy
                     <= dimy * dimy * dimz * dimz

\* Number of points the first k spokes contribute before any truncation.
RECURSIVE EmittedUpTo(_)
EmittedUpTo(k) ==
    IF k = 0 THEN 0
    ELSE Len(SpokeOf(dimy, dimz, order, k, k * tinyGoldenAngles(angleNr)))
            + EmittedUpTo(k - 1)

\* The 8 x 8 grid with the first golden angle: the last spoke overshot the
\* target of 64 and was truncated.
SpokeLoopOvershotAndTruncated ==
    /\ family = "radial" /\ pc = "done"
    /\ dimy = 8 /\ dimz = 8 /\ angleNr = 1
    /\ EmittedUpTo(spokeNr) > numPointsTarget
    /\ Len(kSpaceList) = 64

\* C6: the coverage fraction never exceeds 1: the number of distinct
\* coordinates of the sample sequence is at most the number of cells of the
\* index grid that satisfy the elliptical support inequality.
CoverageAtMostOne ==
    (family \in {"radial", "spiral"} /\ pc = "done")
        => numUnique <= numEllipticalPoints

\* Every spoke iteration rasterises a segment that contains the origin cell
\* and makes the accumulated count strictly larger.
SpokeStepAddsOrigin ==
    (family = "radial" /\ spokeNr' = spokeNr + 1)
        => /\ \E i \in 1..numSamplesPerSpoke(dimy, dimz) :
                 SpokePoints(dimy, dimz, angle')[i] = <<0, 0>>
           /\ \E i \in 1..Len(SpokeOf(dimy, dimz, order, spokeNr', angle')) :
                 SpokeOf(dimy, dimz, order, spokeNr', angle')[i] = <<0, 0>>
           /\ Len(kSpaceList') > Len(kSpaceList)

\* C9: the spoke loop runs to completion for all even grid dimensions and
\* every golden-angle index: every iteration appends at least one coordinate
\* (the origin cell survives the filter), the count strictly increases, and
\* the target dimy * dimz is eventually reached.
SpokeLoopCompletes ==
    /\ [][SpokeStepAddsOrigin]_vars
    /\ (family = "radial" /\ pc = "spoke")
          ~> (pc = "coverage" /\ Len(kSpaceList) = dimy * dimz)

\* A run that finished although one of its spokes contributed the origin
\* cell only.
SpokeLoopDoneWithOriginOnlySpoke ==
    /\ family = "radial" /\ pc = "done"
    /\ \E k \in 1..spokeNr :
          SpokeOf(dimy, dimz, order, k, k * tinyGoldenAngles(angleNr))
              = << <<0, 0>> >>

----------------------------------------------------------------------------
(* Properties of the pseudo-spiral generator *)

\* C5: the final coordinate list of the spiral generator has exactly
\* dimy * dimz * reps entries, for every choice of dimensions and reps.
SpiralLengthIsTarget ==
    (family = "spiral" /\ pc \in {"coverage", "done"})
        => Len(kSpaceList) = dimy * dimz * reps

\* Number of occurrences of the origin among the first i entries of s.
OriginRank(s, i) == Cardinality({j \in 1..i : s[j] = <<0, 0>>})

\* s without the 1st, 3rd, 5th, ... occurrence of the origin.
WithoutOddOrigins(s) ==
    LET tagged == [i \in 1..Len(s) |->
                      <<s[i] # <<0, 0>> \/ OriginRank(s, i) % 2 = 0, s[i]>>]
        kept == SelectSeq(tagged, LAMBDA e : e[1])
    IN  [i \in 1..Len(kept) |-> kept[i][2]]

NonOrigin(s) == SelectSeq(s, LAMBDA pt : pt # <<0, 0>>)

\* The compacted list the pruning started from: ky, kz keep the floored
\* coordinates.
compactedList == RemoveRepeats(ColumnStack(ky, kz), numberOfPasses)

\* C10: the origin pruning deletes exactly the 1st, 3rd, 5th, ...
\* occurrences of (0,0) of the compacted list: of k occurrences exactly
\* floor(k/2) remain, and the non-origin entries keep their relative order.
OriginPruningDeletesOddOccurrences ==
    (family = "spiral" /\ pc = "truncate")
        => /\ kSpaceList = WithoutOddOrigins(compactedList)
           /\ OriginRank(kSpaceList, Len(kSpaceList))
                 = OriginRank(compactedList, Len(compactedList)) \div 2
           /\ NonOrigin(kSpaceList) = NonOrigin(compactedList)

\* The pruning has run on a compacted list with an odd number (at least 3)
\* of origin visits.
OriginPrunedFromOddCount ==
    /\ family = "spiral" /\ pc = "truncate"
    /\ OriginRank(compactedList, Len(compactedList)) % 2 = 1
    /\ OriginRank(compactedList, Len(compactedList)) >= 3

----------------------------------------------------------------------------
(* Adjacent repeats in the spiral output *)

NoAdjacentRepeats(s) == \A i \in 1..(Len(s) - 1) : s[i] # s[i + 1]

\* The compaction passes leave no two adjacent equal coordinates, and a
\* further pass changes nothing.
CompactionLeavesNoAdjacentRepeats ==
    (family = "spiral" /\ pc = "prune") =>
        /\ NoAdjacentRepeats(kSpaceList)
        /\ CompactPass(kSpaceList) = kSpaceList

\* C11: the final spiral sequence, after the compaction passes, the
\* deletion of alternate origin visits and the truncation, contains no two
\* adjacent equal coordinates.
SpiralOutputHasNoAdjacentRepeats ==
    (family = "spiral" /\ pc \in {"coverage", "done"}) =>
        NoAdjacentRepeats(kSpaceList)

====
